---- MODULE Spec2Model ----
(***************************************************************************)
(* Model of the Black-Scholes dashboard: the pricing functions of          *)
(* projects/p01_option_pricer.py (black_scholes, calculate_greeks, the     *)
(* payoff curve of render) and the page navigation of app.py.              *)
(*                                                                         *)
(* Floating-point numbers are fixed-point integers with SCALE units per    *)
(* 1.0.  The IEEE special values the code can produce on invalid input     *)
(* (NaN, +Inf, -Inf, -0.0) are sentinel values outside the numeric range.  *)
(***************************************************************************)
EXTENDS Integers, Sequences, FiniteSets, TLC

\* ------------------------------------------------------------------------
\* Floating-point layer
\* ------------------------------------------------------------------------

\* fixed-point units per 1.0 of a Python float
SCALE == 1000

\* units per 1.0 inside the series and tables of the library functions
FINE == 10000

\* IEEE special values
NaN == 2000000000
PosInf == 1999999999
NegInf == -1999999999
NegZero == 1999999998

IsFinite(x) == x \notin {NaN, PosInf, NegInf}

\* numeric value of a finite float (-0.0 is 0)
Val(x) == IF x = NegZero THEN 0 ELSE x

\* sign bit of a float other than NaN
IsNeg(x) == x = NegInf \/ x = NegZero \/ (x # PosInf /\ x < 0)

Abs(x) == IF x < 0 THEN -x ELSE x

\* a / b rounded to the nearest integer, b # 0
RDiv(a, b) ==
    LET q == (2 * Abs(a) + Abs(b)) \div (2 * Abs(b))
    IN  IF (a < 0) # (b < 0) THEN -q ELSE q

FNeg(x) ==
    CASE x = NaN -> NaN
      [] x = PosInf -> NegInf
      [] x = NegInf -> PosInf
      [] x = NegZero -> 0
      [] x = 0 -> NegZero
      [] OTHER -> -x

FAdd(x, y) ==
    CASE x = NaN \/ y = NaN -> NaN
      [] x = PosInf -> IF y = NegInf THEN NaN ELSE PosInf
      [] x = NegInf -> IF y = PosInf THEN NaN ELSE NegInf
      [] y = PosInf -> PosInf
      [] y = NegInf -> NegInf
      [] x = NegZero /\ y = NegZero -> NegZero
      [] OTHER -> Val(x) + Val(y)

FSub(x, y) == FAdd(x, FNeg(y))

FMul(x, y) ==
    CASE x = NaN \/ y = NaN -> NaN
      [] ~IsFinite(x) \/ ~IsFinite(y) ->
            IF Val(x) = 0 \/ Val(y) = 0 THEN NaN
            ELSE IF IsNeg(x) # IsNeg(y) THEN NegInf ELSE PosInf
      [] OTHER ->
            LET p == RDiv(Val(x) * Val(y), SCALE)
            IN  IF p = 0 /\ IsNeg(x) # IsNeg(y) THEN NegZero ELSE p

\* division of numpy floats: x / 0 is an infinity or NaN, never an exception
FDiv(x, y) ==
    CASE x = NaN \/ y = NaN -> NaN
      [] ~IsFinite(x) ->
            IF ~IsFinite(y) THEN NaN
            ELSE IF IsNeg(x) # IsNeg(y) THEN NegInf ELSE PosInf
      [] ~IsFinite(y) -> IF IsNeg(x) # IsNeg(y) THEN NegZero ELSE 0
      [] Val(y) = 0 ->
            IF Val(x) = 0 THEN NaN
            ELSE IF IsNeg(x) # IsNeg(y) THEN NegInf ELSE PosInf
      [] OTHER ->
            LET q == RDiv(Val(x) * SCALE, Val(y))
            IN  IF q = 0 /\ IsNeg(x) # IsNeg(y) THEN NegZero ELSE q

\* np.maximum(x, 0): NaN propagates
FMax0(x) ==
    CASE x = NaN -> NaN
      [] x = PosInf -> PosInf
      [] x = NegInf \/ x = NegZero -> 0
      [] OTHER -> IF x > 0 THEN x ELSE 0

RECURSIVE ISqrt(_, _, _)
\* largest s in lo..hi with s * s <= n, by bisection
ISqrt(n, lo, hi) ==
    IF lo >= hi THEN lo
    ELSE LET mid == (lo + hi + 1) \div 2
         IN  IF mid * mid <= n THEN ISqrt(n, mid, hi) ELSE ISqrt(n, lo, mid - 1)

\* np.sqrt: NaN below zero
Sqrt(x) ==
    CASE x = NaN \/ x = NegInf -> NaN
      [] x = PosInf -> PosInf
      [] x = NegZero -> NegZero
      [] x < 0 -> NaN
      [] OTHER ->
            LET n == x * SCALE
                s == ISqrt(n, 0, 40000)
            IN  IF n - s * s > s THEN s + 1 ELSE s

RECURSIVE AtanhSeries(_, _, _, _)
\* z + z^3/3 + z^5/5 + ... up to the term of degree maxDeg, in FINE units
AtanhSeries(zpow, z2, deg, maxDeg) ==
    IF deg > maxDeg THEN 0
    ELSE RDiv(zpow, deg) + AtanhSeries(RDiv(zpow * z2, FINE), z2, deg + 2, maxDeg)

\* ln 2 in FINE units
LN2 == 6931

RECURSIVE LnFine(_)
\* natural logarithm of x > 0, argument and result in FINE units
LnFine(x) ==
    IF x > 2 * FINE THEN LN2 + LnFine(RDiv(x, 2))
    ELSE IF 2 * x < FINE THEN LnFine(2 * x) - LN2
    ELSE LET z == RDiv((x - FINE) * FINE, x + FINE)
         IN  2 * AtanhSeries(z, RDiv(z * z, FINE), 1, 13)

\* np.log: -inf at 0, NaN below zero
Ln(x) ==
    CASE x = NaN \/ x = NegInf -> NaN
      [] x = PosInf -> PosInf
      [] Val(x) = 0 -> NegInf
      [] x < 0 -> NaN
      [] OTHER -> RDiv(LnFine(x * (FINE \div SCALE)), FINE \div SCALE)

RECURSIVE ExpSeries(_, _, _, _)
\* 1 + x + x^2/2! + ... up to the term of degree maxDeg, in FINE units
ExpSeries(term, x, deg, maxDeg) ==
    IF deg > maxDeg THEN 0
    ELSE term + ExpSeries(RDiv(RDiv(term * x, FINE), deg + 1), x, deg + 1, maxDeg)

\* np.exp
Exp(x) ==
    CASE x = NaN -> NaN
      [] x = PosInf -> PosInf
      [] x = NegInf -> 0
      [] OTHER ->
            LET xf == Val(x) * (FINE \div SCALE)
                half == ExpSeries(FINE, RDiv(xf, 2), 0, 8)
            IN  RDiv(RDiv(half * half, FINE), FINE \div SCALE)

\* grid step of the normal tables, in SCALE units (0.05)
GridStep == 50

\* norm.cdf at 0.00, 0.05, ..., 4.00, in millionths
CdfTable ==
    << 500000, 519939, 539828, 559618, 579260, 598706, 617911, 636831,
       655422, 673645, 691462, 708840, 725747, 742154, 758036, 773373,
       788145, 802337, 815940, 828944, 841345, 853141, 864334, 874928,
       884930, 894350, 903200, 911492, 919243, 926471, 933193, 939429,
       945201, 950529, 955435, 959941, 964070, 967843, 971283, 974412,
       977250, 979818, 982136, 984222, 986097, 987776, 989276, 990613,
       991802, 992857, 993790, 994614, 995339, 995975, 996533, 997020,
       997445, 997814, 998134, 998411, 998650, 998856, 999032, 999184,
       999313, 999423, 999517, 999596, 999663, 999720, 999767, 999807,
       999841, 999869, 999892, 999912, 999928, 999941, 999952, 999961,
       999968 >>

\* norm.pdf at 0.00, 0.05, ..., 4.00, in millionths
PdfTable ==
    << 398942, 398444, 396953, 394479, 391043, 386668, 381388, 375240,
       368270, 360527, 352065, 342944, 333225, 322972, 312254, 301137,
       289692, 277985, 266085, 254059, 241971, 229882, 217852, 205936,
       194186, 182649, 171369, 160383, 149727, 139431, 129518, 120009,
       110921, 102265, 94049, 86277, 78950, 72065, 65616, 59595,
       53991, 48792, 43984, 39550, 35475, 31740, 28327, 25218,
       22395, 19837, 17528, 15449, 13583, 11912, 10421, 9094,
       7915, 6873, 5953, 5143, 4432, 3810, 3267, 2794,
       2384, 2029, 1723, 1459, 1232, 1038, 873, 732,
       612, 510, 425, 353, 292, 241, 199, 163,
       134 >>

\* linear interpolation in a table over 0 <= a, result in millionths
Interp(table, a, beyond) ==
    LET i == a \div GridStep
        f == a % GridStep
    IN  IF i + 1 >= Len(table) THEN beyond
        ELSE table[i + 1] + RDiv((table[i + 2] - table[i + 1]) * f, GridStep)

\* norm.cdf: the upper half from the table, the lower half as 1 - cdf(-x)
NormCdf(x) ==
    CASE x = NaN -> NaN
      [] x = PosInf -> SCALE
      [] x = NegInf -> 0
      [] OTHER ->
            LET upper == RDiv(Interp(CdfTable, Abs(Val(x)), 1000000), 1000000 \div SCALE)
            IN  IF Val(x) >= 0 THEN upper ELSE SCALE - upper

\* norm.pdf: even in x
NormPdf(x) ==
    CASE x = NaN -> NaN
      [] x = PosInf \/ x = NegInf -> 0
      [] OTHER -> RDiv(Interp(PdfTable, Abs(Val(x)), 0), 1000000 \div SCALE)

\* ------------------------------------------------------------------------
\* projects/p01_option_pricer.py
\* ------------------------------------------------------------------------

\* the literals 0.5, 1.5, 2 and 1 of the formulas
Half == SCALE \div 2
OneAndHalf == SCALE + SCALE \div 2
Two == 2 * SCALE
One == SCALE

\* outcome of a call: the returned tuple, or the exception that left it
Raise(exc) == [raised |-> exc]
NotCalled == [raised |-> "not_called"]
Returned(res) == res.raised = "none"

\* S / K on Python numbers: division by zero raises
PyDivRaises(S, K) == K = 0

\* black_scholes with the Put branch reading N(d2) and N(d1) unnegated
black_scholes_put_unnegated(S, K, T, r, sigma, option_type) ==
    IF PyDivRaises(S, K) THEN Raise("ZeroDivisionError")
    ELSE
    LET d1 == FDiv(FAdd(Ln(FDiv(S, K)),
                        FMul(FAdd(r, FMul(Half, FMul(sigma, sigma))), T)),
                   FMul(sigma, Sqrt(T)))
        d2 == FSub(d1, FMul(sigma, Sqrt(T)))
        price == IF option_type = "call"
                 THEN FSub(FMul(S, NormCdf(d1)),
                           FMul(FMul(K, Exp(FMul(FNeg(r), T))), NormCdf(d2)))
                 ELSE FSub(FMul(FMul(K, Exp(FMul(FNeg(r), T))), NormCdf(d2)),
                           FMul(S, NormCdf(d1)))
    IN  [raised |-> "none", price |-> price, d1 |-> d1, d2 |-> d2]

black_scholes(S, K, T, r, sigma, option_type) ==
    IF PyDivRaises(S, K) THEN Raise("ZeroDivisionError")
    ELSE
    LET d1 == FDiv(FAdd(Ln(FDiv(S, K)),
                        FMul(FAdd(r, FMul(Half, FMul(sigma, sigma))), T)),
                   FMul(sigma, Sqrt(T)))
        d2 == FSub(d1, FMul(sigma, Sqrt(T)))
        price == IF option_type = "call"
                 THEN FSub(FMul(S, NormCdf(d1)),
                           FMul(FMul(K, Exp(FMul(FNeg(r), T))), NormCdf(d2)))
                 ELSE FSub(FMul(FMul(K, Exp(FMul(FNeg(r), T))), NormCdf(FNeg(d2))),
                           FMul(S, NormCdf(FNeg(d1))))
    IN  [raised |-> "none", price |-> price, d1 |-> d1, d2 |-> d2]

\* greeks_delta with the operands of the Put subtraction swapped
greeks_delta_swapped(d1, option_type) ==
    IF option_type = "call"
    THEN NormCdf(d1)
    ELSE FSub(One, NormCdf(d1))

\* Delta of calculate_greeks
greeks_delta(d1, option_type) ==
    IF option_type = "call"
    THEN NormCdf(d1)
    ELSE FSub(NormCdf(d1), One)

\* Gamma of calculate_greeks
greeks_gamma(S, T, sigma, d1) ==
    FDiv(NormPdf(d1), FMul(FMul(S, sigma), Sqrt(T)))

\* greeks_theta scaled to a daily figure
greeks_theta_daily(S, K, T, r, sigma, d1, d2, option_type) ==
    LET theta == FSub(FDiv(FNeg(FMul(FMul(S, NormPdf(d1)), sigma)),
                           FMul(Two, Sqrt(T))),
                      FMul(FMul(FMul(r, K), Exp(FMul(FNeg(r), T))), NormCdf(d2)))
        annual == IF option_type = "put"
                  THEN FAdd(theta, FMul(FMul(r, K), Exp(FMul(FNeg(r), T))))
                  ELSE theta
    IN  FDiv(annual, 365 * SCALE)

\* Theta of calculate_greeks
greeks_theta(S, K, T, r, sigma, d1, d2, option_type) ==
    LET theta == FSub(FDiv(FNeg(FMul(FMul(S, NormPdf(d1)), sigma)),
                           FMul(Two, Sqrt(T))),
                      FMul(FMul(FMul(r, K), Exp(FMul(FNeg(r), T))), NormCdf(d2)))
    IN  IF option_type = "put"
        THEN FAdd(theta, FMul(FMul(r, K), Exp(FMul(FNeg(r), T))))
        ELSE theta

\* calculate_greeks with the sign of gamma following the option type
calculate_greeks_signed_gamma(S, K, T, r, sigma, option_type) ==
    IF PyDivRaises(S, K) THEN Raise("ZeroDivisionError")
    ELSE
    LET d1 == FDiv(FAdd(Ln(FDiv(S, K)),
                        FMul(FAdd(r, FMul(Half, FMul(sigma, sigma))), T)),
                   FMul(sigma, Sqrt(T)))
        d2 == FSub(d1, FMul(sigma, Sqrt(T)))
    IN  [raised |-> "none",
         delta |-> greeks_delta(d1, option_type),
         gamma |-> IF option_type = "call"
                   THEN greeks_gamma(S, T, sigma, d1)
                   ELSE FNeg(greeks_gamma(S, T, sigma, d1)),
         theta |-> greeks_theta(S, K, T, r, sigma, d1, d2, option_type)]

calculate_greeks(S, K, T, r, sigma, option_type) ==
    IF PyDivRaises(S, K) THEN Raise("ZeroDivisionError")
    ELSE
    LET d1 == FDiv(FAdd(Ln(FDiv(S, K)),
                        FMul(FAdd(r, FMul(Half, FMul(sigma, sigma))), T)),
                   FMul(sigma, Sqrt(T)))
        d2 == FSub(d1, FMul(sigma, Sqrt(T)))
    IN  [raised |-> "none",
         delta |-> greeks_delta(d1, option_type),
         gamma |-> greeks_gamma(S, T, sigma, d1),
         theta |-> greeks_theta(S, K, T, r, sigma, d1, d2, option_type)]

\* number of points of the payoff diagram
NumPoints == 100

\* np.linspace(start, stop, num): num evenly spaced values, stop included
linspace(start, stop, num) ==
    [i \in 1..num |->
        IF i = num /\ num > 1 THEN stop
        ELSE start + RDiv((i - 1) * (stop - start), num - 1)]

\* payoff_curve without the premium subtracted
payoff_curve_gross(spot_range, K, price, option_type) ==
    [i \in 1..Len(spot_range) |->
        IF option_type = "call"
        THEN FMax0(FSub(spot_range[i], K))
        ELSE FMax0(FSub(K, spot_range[i]))]

\* the net profit at maturity for each spot of spot_range
payoff_curve(spot_range, K, price, option_type) ==
    [i \in 1..Len(spot_range) |->
        IF option_type = "call"
        THEN FSub(FMax0(FSub(spot_range[i], K)), price)
        ELSE FSub(FMax0(FSub(K, spot_range[i])), price)]

\* ------------------------------------------------------------------------
\* State
\* ------------------------------------------------------------------------

VARIABLES
    current_page,       \* st.session_state.current_page
    selected_project,   \* st.session_state.selected_project
    module,             \* outcome of load_project_module on the project page
    S, K, T, r, sigma,  \* the number inputs of the simulator / the arguments
    option_type,        \* the select box / the option_type argument
    pricing,            \* outcome of the last black_scholes call
    greeks,             \* outcome of the last calculate_greeks call
    spot_range,         \* x values of the payoff diagram
    payoff              \* y values of the payoff diagram

nav == <<current_page, selected_project, module>>
inputs == <<S, K, T, r, sigma, option_type>>
outputs == <<pricing, greeks, spot_range, payoff>>
vars == <<current_page, selected_project, module, S, K, T, r, sigma,
          option_type, pricing, greeks, spot_range, payoff>>

\* session_state value of a key that holds None
None == "None"

\* the ids of the project cards of the dashboard
ProjectIds == {"p01_option_pricer"}

\* what happens when the project page loads and renders the module
ModuleOutcomes == {"loaded", "load_failed", "no_render"}

\* largest multiples of the input steps that the model types into the widgets
MaxSpot == 4
MaxStrike == 4
MaxTime == 3
MaxSigma == 3

\* values typed into the number inputs (no widget sets min_value): spot and
\* strike in steps of 50, time in steps of 0.5, volatility in steps of 0.1
SpotInputs == {50 * SCALE * k : k \in -1..MaxSpot}
StrikeInputs == {50 * SCALE * k : k \in 0..MaxStrike}
TimeInputs == {(SCALE \div 2) * k : k \in -1..MaxTime}
RateInputs == {-20, 20, 50}
SigmaInputs == {(SCALE \div 10) * k : k \in -1..MaxSigma}

\* the options of the select box
OptionTypes == {"call", "put"}

\* strings a caller of the functions can pass as option_type
OptionTypeArgs == {"call", "put", "PUT"}

\* ------------------------------------------------------------------------
\* app.py
\* ------------------------------------------------------------------------

\* the widgets of a page that is rendered for the first time, no button clicked
FreshWidgets ==
    /\ S' = 100000
    /\ K' = 100000
    /\ T' = 1000
    /\ r' = 50
    /\ sigma' = 200
    /\ option_type' = "call"

NoOutputs ==
    /\ pricing' = NotCalled
    /\ greeks' = NotCalled
    /\ spot_range' = <<>>
    /\ payoff' = <<>>

\* main: first run of a session
Init ==
    /\ current_page = "home"
    /\ selected_project = None
    /\ module = "none"
    /\ S = 100000
    /\ K = 100000
    /\ T = 1000
    /\ r = 50
    /\ sigma = 200
    /\ option_type = "call"
    /\ pricing = NotCalled
    /\ greeks = NotCalled
    /\ spot_range = <<>>
    /\ payoff = <<>>

\* render_dashboard: a card is clicked; the rerun shows the project page
render_dashboard(project, outcome) ==
    /\ current_page = "home"
    /\ selected_project' = project
    /\ current_page' = "project"
    /\ module' = outcome
    /\ FreshWidgets
    /\ NoOutputs

\* Back leaving the selected project in session_state
Back_keeps_selection ==
    /\ current_page # "home"
    /\ current_page' = "home"
    /\ selected_project' = selected_project
    /\ module' = "none"
    /\ FreshWidgets
    /\ NoOutputs

\* render_project_page: the back button is clicked; the rerun shows the dashboard
Back ==
    /\ current_page # "home"
    /\ current_page' = "home"
    /\ selected_project' = None
    /\ module' = "none"
    /\ FreshWidgets
    /\ NoOutputs

\* the simulator is on screen: the project page rendered the loaded module
SimulatorShown == current_page # "home" /\ module = "loaded"

\* render: a widget changes; the rerun finds the button unclicked
SetS(v) ==
    /\ SimulatorShown
    /\ S' = v
    /\ UNCHANGED <<nav, K, T, r, sigma, option_type>>
    /\ NoOutputs

SetK(v) ==
    /\ SimulatorShown
    /\ K' = v
    /\ UNCHANGED <<nav, S, T, r, sigma, option_type>>
    /\ NoOutputs

SetT(v) ==
    /\ SimulatorShown
    /\ T' = v
    /\ UNCHANGED <<nav, S, K, r, sigma, option_type>>
    /\ NoOutputs

SetR(v) ==
    /\ SimulatorShown
    /\ r' = v
    /\ UNCHANGED <<nav, S, K, T, sigma, option_type>>
    /\ NoOutputs

SetSigma(v) ==
    /\ SimulatorShown
    /\ sigma' = v
    /\ UNCHANGED <<nav, S, K, T, r, option_type>>
    /\ NoOutputs

SetOptionType(v) ==
    /\ SimulatorShown
    /\ option_type' = v
    /\ UNCHANGED <<nav, S, K, T, r, sigma>>
    /\ NoOutputs

\* render: the button is clicked; an exception ends the run where it is raised
render ==
    /\ SimulatorShown
    /\ UNCHANGED <<nav, inputs>>
    /\ pricing' = black_scholes(S, K, T, r, sigma, option_type)
    /\ greeks' = IF Returned(pricing')
                 THEN calculate_greeks(S, K, T, r, sigma, option_type)
                 ELSE NotCalled
    /\ spot_range' = IF Returned(pricing') /\ Returned(greeks')
                     THEN linspace(FMul(S, Half), FMul(S, OneAndHalf), NumPoints)
                     ELSE <<>>
    /\ payoff' = IF Returned(pricing') /\ Returned(greeks')
                 THEN payoff_curve(spot_range', K, pricing'.price, option_type)
                 ELSE <<>>

Next ==
    \/ \E project \in ProjectIds, outcome \in ModuleOutcomes :
            render_dashboard(project, outcome)
    \/ Back
    \/ \E v \in SpotInputs : SetS(v)
    \/ \E v \in StrikeInputs : SetK(v)
    \/ \E v \in TimeInputs : SetT(v)
    \/ \E v \in RateInputs : SetR(v)
    \/ \E v \in SigmaInputs : SetSigma(v)
    \/ \E v \in OptionTypes : SetOptionType(v)
    \/ render

Spec == Init /\ [][Next]_vars

\* ------------------------------------------------------------------------
\* The pricing functions called directly
\* ------------------------------------------------------------------------

\* a caller picks the arguments
InitPricer ==
    /\ current_page = "home"
    /\ selected_project = None
    /\ module = "none"
    /\ S \in SpotInputs
    /\ K \in StrikeInputs
    /\ T \in TimeInputs
    /\ r \in RateInputs
    /\ sigma \in SigmaInputs
    /\ option_type \in OptionTypeArgs
    /\ pricing = NotCalled
    /\ greeks = NotCalled
    /\ spot_range = <<>>
    /\ payoff = <<>>

CallBlackScholes ==
    /\ pricing = NotCalled
    /\ pricing' = black_scholes(S, K, T, r, sigma, option_type)
    /\ UNCHANGED <<nav, inputs, greeks, spot_range, payoff>>

CallCalculateGreeks ==
    /\ greeks = NotCalled
    /\ greeks' = calculate_greeks(S, K, T, r, sigma, option_type)
    /\ UNCHANGED <<nav, inputs, pricing, spot_range, payoff>>

NextPricer ==
    \/ CallBlackScholes
    \/ CallCalculateGreeks

SpecPricer == InitPricer /\ [][NextPricer]_vars

\* ------------------------------------------------------------------------
\* Properties
\* ------------------------------------------------------------------------

\* the parameters the specification calls valid
ValidParams == S > 0 /\ K > 0 /\ T > 0 /\ sigma > 0

\* the other of the two option types
Opposite(t) == IF t = "call" THEN "put" ELSE "call"

\* strike * exp(-riskFreeRate * timeToMaturity)
DiscountedStrike == FMul(K, Exp(FMul(FNeg(r), T)))

\* C1: black_scholes and calculate_greeks fail with InvalidParameter, and
\* return nothing, whenever T <= 0, sigma <= 0, S <= 0 or K <= 0.
C1_InvalidParameterRaised ==
    ~ValidParams =>
        /\ pricing # NotCalled => pricing = Raise("InvalidParameter")
        /\ greeks # NotCalled => greeks = Raise("InvalidParameter")

\* rounding units allowed between the two sides of put-call parity
ParityTol == 1

\* C2: for valid parameters the Call price minus the Put price of
\* black_scholes equals S - K * exp(-r * T), within the rounding tolerance.
C2_PutCallParity ==
    (ValidParams /\ Returned(pricing) /\ option_type \in OptionTypes) =>
        LET other == black_scholes(S, K, T, r, sigma, Opposite(option_type)).price
            callPrice == IF option_type = "call" THEN pricing.price ELSE other
            putPrice == IF option_type = "put" THEN pricing.price ELSE other
        IN  Abs((Val(callPrice) - Val(putPrice)) - (S - DiscountedStrike)) <= ParityTol

C2_Witness ==
    /\ ValidParams
    /\ Returned(pricing)
    /\ option_type = "put"
    /\ Val(pricing.price) > 0
    /\ Val(black_scholes(S, K, T, r, sigma, "call").price) > 0
    /\ S # DiscountedStrike

\* C3: for valid parameters the delta of calculate_greeks is in [0, 1] for a
\* Call and in [-1, 0] for a Put.
C3_DeltaBounds ==
    (ValidParams /\ Returned(greeks)) =>
        /\ option_type = "call" => (0 <= Val(greeks.delta) /\ Val(greeks.delta) <= One)
        /\ option_type = "put" => (-One <= Val(greeks.delta) /\ Val(greeks.delta) <= 0)

C3_Witness ==
    /\ ValidParams
    /\ Returned(greeks)
    /\ option_type = "put"
    /\ -One < Val(greeks.delta)
    /\ Val(greeks.delta) < 0

\* C4: two calls of calculate_greeks that differ only in the option type
\* return the same gamma.
C4_GammaSymmetry ==
    Returned(greeks) =>
        /\ greeks.gamma = calculate_greeks(S, K, T, r, sigma, "call").gamma
        /\ greeks.gamma = calculate_greeks(S, K, T, r, sigma, "put").gamma

C4_Witness ==
    /\ ValidParams
    /\ Returned(greeks)
    /\ option_type = "put"
    /\ Val(greeks.gamma) > 0
    /\ IsFinite(greeks.gamma)

\* C5: the payoff curve has exactly NumPoints entries and its spot values
\* are strictly increasing.
C5_SpotRangeIncreasing ==
    Returned(pricing) /\ Returned(greeks) =>
        /\ Len(spot_range) = NumPoints
        /\ \A i \in 1..(Len(spot_range) - 1) : spot_range[i] < spot_range[i + 1]

\* C6: every point of the payoff curve is max(s - K, 0) - price for a Call and
\* max(K - s, 0) - price for a Put; the spots run from 0.5 * S to 1.5 * S,
\* both included; for S = K = 100 and a Call the first net profit is -price
\* and the last is 50 - price.
C6_PayoffValues ==
    Returned(pricing) /\ Returned(greeks) =>
        /\ Len(spot_range) = NumPoints
        /\ Len(payoff) = NumPoints
        /\ 2 * spot_range[1] = S
        /\ 2 * spot_range[NumPoints] = 3 * S
        /\ \A i \in 1..NumPoints :
              LET s == spot_range[i]
                  intrinsic == IF option_type = "call"
                               THEN (IF s > K THEN s - K ELSE 0)
                               ELSE (IF K > s THEN K - s ELSE 0)
              IN  IF pricing.price = NaN
                  THEN payoff[i] = NaN
                  ELSE Val(payoff[i]) = intrinsic - Val(pricing.price)
        /\ (S = 100000 /\ K = 100000 /\ option_type = "call" /\ IsFinite(pricing.price)) =>
              /\ Val(payoff[1]) = -Val(pricing.price)
              /\ Val(payoff[NumPoints]) = 50000 - Val(pricing.price)

C6_Witness ==
    /\ S = 100000
    /\ K = 100000
    /\ option_type = "call"
    /\ ValidParams
    /\ Returned(pricing)
    /\ Len(payoff) = NumPoints
    /\ payoff[1] < 0
    /\ payoff[NumPoints] > 0

\* rounding units allowed on a theta
ThetaTol == 1

C9_Navigation ==
    /\ []((current_page = "home") <=> (selected_project = None))
    /\ [][\/ /\ current_page' = current_page
             /\ selected_project' = selected_project
          \/ /\ current_page = "home"
             /\ current_page' = "project"
             /\ selected_project' \in ProjectIds
          \/ /\ current_page = "project"
             /\ current_page' = "home"
             /\ selected_project' = None]_vars
    /\ [](current_page = "project" => ENABLED Back)

C9_Witness ==
    /\ current_page = "project"
    /\ selected_project = "p01_option_pricer"
    /\ module = "load_failed"

\* C10: black_scholes and calculate_greeks classify every option_type value
\* the same way: Put price goes with Put delta and Put theta, Call price with
\* Call delta and Call theta.
C10_ConsistentClassification ==
    (ValidParams /\ Returned(pricing) /\ Returned(greeks)) =>
        LET callPrice == black_scholes(S, K, T, r, sigma, "call").price
            putPrice == black_scholes(S, K, T, r, sigma, "put").price
            callGreeks == calculate_greeks(S, K, T, r, sigma, "call")
            putGreeks == calculate_greeks(S, K, T, r, sigma, "put")
        IN  /\ (pricing.price = putPrice /\ putPrice # callPrice) =>
                  (greeks.delta = putGreeks.delta /\ greeks.theta = putGreeks.theta)
            /\ (pricing.price = callPrice /\ putPrice # callPrice) =>
                  (greeks.delta = callGreeks.delta /\ greeks.theta = callGreeks.theta)

====
